---------------------------- MODULE Spec2Model ----------------------------
(***************************************************************************)
(* Model of app.py, the Streamlit dashboard of the membership dues.        *)
(*                                                                         *)
(* The script is run from top to bottom once per user interaction (one     *)
(* "pass").  load_data() is memoised by st.cache_data, a store owned by    *)
(* the server process; everything below line 22 is a function of the       *)
(* loaded table, of the three multiselect values and of today's date.      *)
(*                                                                         *)
(* Lines 19-20 of app.py are written at column 0 although they follow the  *)
(* "if st.button(...):" of line 18.  They are modelled as the body of that *)
(* "if", which is what the comments of lines 17, 19 and 20 describe.       *)
(*                                                                         *)
(* A table (DataFrame) is a sequence of rows [NOM, ANNEE, MOIS, MONTANT].  *)
(* A float cell that pandas may leave empty is a set: NaN is {} and the    *)
(* number v is {v}.                                                        *)
(***************************************************************************)
EXTENDS Integers, Sequences, FiniteSets, TLC

\* ------------------------------------------------------------------ bounds
\* Longest source table the pipeline specification enumerates.
MaxLignes == 2

\* ------------------------------------------------------- input domains
NOMS == {"Alice", "Bob"}
ANNEES == {2023, 2024}

\* The <<year, month>> periods of the well-formed rows.
Periodes == {<<2023, "Février">>, <<2024, "Janvier">>, <<2024, "Février">>}

\* Rows a source file may hold: well-formed rows, one row with a negative
\* amount and one row whose month is not a canonical month name.
Lignes ==
    {[NOM |-> n, ANNEE |-> p[1], MOIS |-> p[2], MONTANT |-> a] :
        n \in NOMS, p \in Periodes, a \in {0, 5000}}
    \cup {[NOM |-> "Alice", ANNEE |-> 2024, MOIS |-> "Janvier", MONTANT |-> -500],
          [NOM |-> "Bob", ANNEE |-> 2024, MOIS |-> "Brumaire", MONTANT |-> 5000]}

Tables == UNION {[1..n -> Lignes] : n \in 0..MaxLignes}

\* Values datetime.date.today() takes: <<year, month>>.
Dates == {<<2024, 1>>, <<2024, 2>>}

\* The browser sessions connected to the server process.
Sessions == {"s1", "s2"}

\* Contents the source file takes in the session specifications.
V1 == <<[NOM |-> "Alice", ANNEE |-> 2024, MOIS |-> "Janvier", MONTANT |-> 5000]>>
V2 == <<[NOM |-> "Alice", ANNEE |-> 2024, MOIS |-> "Janvier", MONTANT |-> 5000],
        [NOM |-> "Bob", ANNEE |-> 2024, MOIS |-> "Janvier", MONTANT |-> 0]>>
V3 == <<[NOM |-> "Bob", ANNEE |-> 2023, MOIS |-> "Février", MONTANT |-> 0]>>
Fichiers == {V1, V2, V3}

\* ------------------------------------------------------------ helpers
NaN == {}
Nombre(v) == {v}

RECURSIVE Somme(_)
\* Series.sum(): the sum of a sequence of numbers, 0 for the empty one.
Somme(s) == IF s = <<>> THEN 0 ELSE Head(s) + Somme(Tail(s))

\* df[col] as a sequence.
Colonne(t, col) == [i \in 1..Len(t) |-> t[i][col]]

\* Series.unique() / nunique(): the distinct values of a column.
Unique(t, col) == {t[i][col] : i \in 1..Len(t)}

RECURSIVE TriEntiers(_)
\* sorted() of a set of integers, ascending.
TriEntiers(S) ==
    IF S = {} THEN <<>>
    ELSE LET m == CHOOSE x \in S : \A y \in S : x <= y
         IN <<m>> \o TriEntiers(S \ {m})

\* The strings of the model in lexicographic order (Python's str order).
OrdreAlpha ==
    <<"Alice", "Août", "Avril", "Bob", "Brumaire", "Décembre", "Février",
      "Janvier", "Juillet", "Juin", "Mai", "Mars", "Novembre", "Octobre",
      "Septembre">>

\* sorted() of a set of strings.
TriTextes(S) == SelectSeq(OrdreAlpha, LAMBDA x : x \in S)

\* -------------------------------------------------------- the script
\* app.py:39-40
mois ==
    <<"Janvier", "Février", "Mars", "Avril", "Mai", "Juin",
      "Juillet", "Août", "Septembre", "Octobre", "Novembre", "Décembre">>

MoisCanoniques == {mois[i] : i \in 1..Len(mois)}

\* app.py:73-77
mois_map ==
    ("Janvier" :> 1) @@ ("Février" :> 2) @@ ("Mars" :> 3) @@ ("Avril" :> 4) @@
    ("Mai" :> 5) @@ ("Juin" :> 6) @@ ("Juillet" :> 7) @@ ("Août" :> 8) @@
    ("Septembre" :> 9) @@ ("Octobre" :> 10) @@ ("Novembre" :> 11) @@
    ("Décembre" :> 12)

\* app.py:37-38: the options of the year and member multiselects.
annees(df) == Unique(df, "ANNEE")
membres(df) == Unique(df, "NOM")

\* Mutant of Masque: the month test joined with | instead of &.
MasqueOu(df, annee_select, membre_select, mois_select) ==
    [i \in 1..Len(df) |->
        \/ (df[i].ANNEE \in annee_select /\ df[i].NOM \in membre_select)
        \/ df[i].MOIS \in mois_select]

\* app.py:46: the boolean mask of the three isin() tests, row by row.
Masque(df, annee_select, membre_select, mois_select) ==
    [i \in 1..Len(df) |->
        /\ df[i].ANNEE \in annee_select
        /\ df[i].NOM \in membre_select
        /\ df[i].MOIS \in mois_select]

RECURSIVE Indexer(_, _)
\* df[mask]: the rows whose mask entry is True, in the order of df.
Indexer(df, masque) ==
    IF df = <<>> THEN <<>>
    ELSE (IF Head(masque) THEN <<Head(df)>> ELSE <<>>)
         \o Indexer(Tail(df), Tail(masque))

\* app.py:46
Filtrer(df, annee_select, membre_select, mois_select) ==
    Indexer(df, Masque(df, annee_select, membre_select, mois_select))

\* app.py:51
TotalCotisations(df_filtre) == Somme(Colonne(df_filtre, "MONTANT"))

\* Mutant of NbPaiements: >= 0 instead of > 0.
NbPaiementsInclusif(df_filtre) ==
    Cardinality({i \in 1..Len(df_filtre) : df_filtre[i].MONTANT >= 0})

\* app.py:52
NbPaiements(df_filtre) ==
    Cardinality({i \in 1..Len(df_filtre) : df_filtre[i].MONTANT > 0})

\* app.py:53
NbNonPaiements(df_filtre) ==
    Cardinality({i \in 1..Len(df_filtre) : df_filtre[i].MONTANT = 0})

\* app.py:54
NbMembres(df_filtre) == Cardinality(Unique(df_filtre, "NOM"))

\* app.py:82: mois_map[row["MOIS"]] raises KeyError for a month that is no
\* key of mois_map.
KeyError(df_filtre) ==
    \E i \in 1..Len(df_filtre) : df_filtre[i].MOIS \notin DOMAIN mois_map

\* Mutant of EnRetard: the current month counts as elapsed.
EnRetardInclusif(row, current_year, current_month) ==
    /\ \/ row.ANNEE < current_year
       \/ (row.ANNEE = current_year /\ mois_map[row.MOIS] <= current_month)
    /\ row.MONTANT = 0

\* app.py:86-87: the test that appends the row's member to retards.
EnRetard(row, current_year, current_month) ==
    /\ \/ row.ANNEE < current_year
       \/ (row.ANNEE = current_year /\ mois_map[row.MOIS] < current_month)
    /\ row.MONTANT = 0

RECURSIVE Retards(_, _, _)
\* app.py:80-88: the list retards built by the loop over the rows.
Retards(df_filtre, current_year, current_month) ==
    IF df_filtre = <<>> THEN <<>>
    ELSE (IF EnRetard(Head(df_filtre), current_year, current_month)
          THEN <<Head(df_filtre).NOM>> ELSE <<>>)
         \o Retards(Tail(df_filtre), current_year, current_month)

\* app.py:90: value_counts() of the list, as member -> "Mois impayés".
RetardsDf(retards) ==
    [n \in {retards[i] : i \in 1..Len(retards)} |->
        Cardinality({i \in 1..Len(retards) : retards[i] = n})]

\* Mutant of GroupBySomme: first() instead of sum().
GroupByPremier(df_filtre, col) ==
    [k \in Unique(df_filtre, col) |->
        Head(SelectSeq(df_filtre, LAMBDA r : r[col] = k)).MONTANT]

\* groupby(col)["MONTANT"].sum(): key -> sum, for the keys present.
GroupBySomme(df_filtre, col) ==
    [k \in Unique(df_filtre, col) |->
        Somme(Colonne(SelectSeq(df_filtre, LAMBDA r : r[col] = k), "MONTANT"))]

\* app.py:101: one row per year present, by ascending year.
TotalParAnnee(df_filtre) ==
    LET g == GroupBySomme(df_filtre, "ANNEE")
        cles == TriEntiers(DOMAIN g)
    IN [i \in 1..Len(cles) |-> [ANNEE |-> cles[i], MONTANT |-> g[cles[i]]]]

\* app.py:113: one row per member present, by ascending name.
TotalParMembre(df_filtre) ==
    LET g == GroupBySomme(df_filtre, "NOM")
        cles == TriTextes(DOMAIN g)
    IN [i \in 1..Len(cles) |-> [NOM |-> cles[i], MONTANT |-> g[cles[i]]]]

\* Series.reindex(labels): the value of each label, NaN for a label the
\* series does not have.
Reindex(g, labels) ==
    [i \in 1..Len(labels) |->
        IF labels[i] \in DOMAIN g THEN Nombre(g[labels[i]]) ELSE NaN]

\* app.py:125
TotalParMois(df_filtre) ==
    LET r == Reindex(GroupBySomme(df_filtre, "MOIS"), mois)
    IN [i \in 1..Len(mois) |-> [MOIS |-> mois[i], MONTANT |-> r[i]]]

\* The columns pivot_table gives the pivot: the months of the rows, sorted.
PivotColonnes(df_filtre) == TriTextes(Unique(df_filtre, "MOIS"))

\* app.py:144: index = members present, columns = months present, each cell
\* the sum of the pair's amounts, fill_value for a pair without rows.
Pivot(df_filtre) ==
    [index |-> TriTextes(Unique(df_filtre, "NOM")),
     columns |-> PivotColonnes(df_filtre),
     cell |-> [n \in Unique(df_filtre, "NOM"), m \in Unique(df_filtre, "MOIS") |->
                LET lignes == SelectSeq(df_filtre,
                                        LAMBDA r : r.NOM = n /\ r.MOIS = m)
                IN IF lignes = <<>> THEN 0
                   ELSE Somme(Colonne(lignes, "MONTANT"))]]


\* app.py:46-144: everything one pass shows, from the loaded table, the three
\* multiselect values and today's date.  A KeyError at line 82 ends the pass:
\* the counters of lines 57-60 are on the page, nothing below them is.
Vue(df, annee_select, membre_select, mois_select, date) ==
    LET f == Filtrer(df, annee_select, membre_select, mois_select)
        ke == KeyError(f)
    IN [df |-> df,
        annee_select |-> annee_select,
        membre_select |-> membre_select,
        mois_select |-> mois_select,
        df_filtre |-> f,
        total_cotisations |-> TotalCotisations(f),
        nb_paiements |-> NbPaiements(f),
        nb_non_paiements |-> NbNonPaiements(f),
        nb_membres |-> NbMembres(f),
        issue |-> IF ke THEN "KeyError" ELSE "rendu",
        retards_df |-> IF ke THEN <<>> ELSE RetardsDf(Retards(f, date[1], date[2])),
        total_par_annee |-> IF ke THEN <<>> ELSE TotalParAnnee(f),
        total_par_membre |-> IF ke THEN <<>> ELSE TotalParMembre(f),
        total_par_mois |-> IF ke THEN <<>> ELSE TotalParMois(f),
        pivot |-> IF ke THEN <<>> ELSE Pivot(f)]

\* ------------------------------------------------------------- state
VARIABLES
    fichier,    \* the rows of cotisations.xlsx on disk
    cache,      \* st.cache_data's entry for load_data(): {} or {table}
    today,      \* <<year, month>> of datetime.date.today()
    session     \* per session: where its script stands and what its page shows

vars == <<fichier, cache, today, session>>

\* A session that has not run the script yet.
SessionNeuve ==
    [pc |-> "new", declencheur |-> "none", lu |-> FALSE, issue |-> "none",
     df |-> <<>>, annee_select |-> {}, membre_select |-> {}, mois_select |-> {},
     df_filtre |-> <<>>, total_cotisations |-> 0, nb_paiements |-> 0,
     nb_non_paiements |-> 0, nb_membres |-> 0, retards_df |-> <<>>,
     total_par_annee |-> <<>>, total_par_membre |-> <<>>,
     total_par_mois |-> <<>>, pivot |-> <<>>]

\* Mutant of LoadData: the decorator left out, every call reads the file.
LoadDataSansCache == fichier

\* app.py:14-16, 22: load_data() under @st.cache_data: the cached table when
\* the process has one, else the file, read now.
LoadData == IF cache = {} THEN fichier ELSE CHOOSE t \in cache : TRUE

\* app.py:42-44: what a multiselect returns in a pass: the value the session
\* holds for it while its options are the ones it was built with, its default
\* (every option) once the options differ.
Multiselect(options, anciennes, valeur) ==
    IF options = anciennes THEN valeur ELSE options

\* app.py:22-177: the script from load_data() to its end, in session s.
Passe(s, declencheur, annee_select, membre_select, mois_select) ==
    LET df == LoadData
    IN /\ cache' = {df}
       /\ session' = [session EXCEPT ![s] =
             [pc |-> "idle", declencheur |-> declencheur, lu |-> (cache = {})]
             @@ Vue(df, annee_select, membre_select, mois_select, today)]
       /\ UNCHANGED <<fichier, today>>

\* The pass of a session whose widgets keep the values the session holds.
PasseInchangee(s, declencheur) ==
    LET df == LoadData
        v == session[s]
    IN Passe(s, declencheur,
             Multiselect(annees(df), annees(v.df), v.annee_select),
             Multiselect(membres(df), membres(v.df), v.membre_select),
             v.mois_select)

\* ----------------------------------------------------------- actions
\* A browser opens the page: the first pass, every multiselect at its default.
Start(s) ==
    /\ session[s].pc = "new"
    /\ LET df == LoadData
       IN Passe(s, "start", annees(df), membres(df), MoisCanoniques)

\* The user changes the multiselects to (ys, ms, mo), chosen among the options
\* on the page; the script runs again.
FilterChange(s, ys, ms, mo) ==
    /\ session[s].pc = "idle"
    /\ ys \subseteq annees(session[s].df)
    /\ ms \subseteq membres(session[s].df)
    /\ mo \subseteq MoisCanoniques
    /\ <<ys, ms, mo>> # <<session[s].annee_select, session[s].membre_select,
                          session[s].mois_select>>
    /\ LET df == LoadData
       IN Passe(s, "filter",
                Multiselect(annees(df), annees(session[s].df), ys),
                Multiselect(membres(df), membres(session[s].df), ms),
                mo)

\* app.py:161: a click on the download button runs the script again.
ExportClick(s) ==
    /\ session[s].pc = "idle"
    /\ PasseInchangee(s, "export")

\* app.py:18-20: a click on the refresh button: the pass clears the cache of
\* the process and asks for a rerun before it reaches load_data().
RefreshClick(s) ==
    /\ session[s].pc = "idle"
    /\ cache' = {}
    /\ session' = [session EXCEPT ![s].pc = "rerun", ![s].declencheur = "refresh"]
    /\ UNCHANGED <<fichier, today>>

\* app.py:20: the rerun st.experimental_rerun() asked for; the button reads
\* False in it.
Rerun(s) ==
    /\ session[s].pc = "rerun"
    /\ PasseInchangee(s, "rerun")

\* Someone saves another cotisations.xlsx.
FileWrite(t) ==
    /\ t # fichier
    /\ fichier' = t
    /\ UNCHANGED <<cache, today, session>>

\* ----------------------------------------------------- specifications
\* Month selections the specifications try.
ChoixMois == (SUBSET {"Janvier", "Février"}) \cup {MoisCanoniques}
ChoixMoisSession == {{}, {"Janvier"}, MoisCanoniques}

\* The server process starts with an empty cache and no session has run.
Init ==
    /\ fichier \in Fichiers
    /\ cache = {}
    /\ today = <<2024, 2>>
    /\ session = [s \in Sessions |-> SessionNeuve]

Interaction(s) ==
    \/ Start(s)
    \/ \E mo \in ChoixMoisSession :
          FilterChange(s, session[s].annee_select, session[s].membre_select, mo)
    \/ ExportClick(s)
    \/ RefreshClick(s)
    \/ Rerun(s)

\* Two browser sessions on one server process.
Next ==
    \/ \E s \in Sessions : Interaction(s)
    \/ \E t \in Fichiers : FileWrite(t)

Spec == Init /\ [][Next]_vars

\* One browser session on the server process.
NextSeule ==
    \/ Interaction("s1")
    \/ \E t \in Fichiers : FileWrite(t)

SpecSeule == Init /\ [][NextSeule]_vars

\* The pipeline on every table: a session opens the page on any source table
\* and any date, then makes one change of the filters.
InitPipeline ==
    /\ fichier \in Tables
    /\ cache = {}
    /\ today \in Dates
    /\ session = [s \in Sessions |-> SessionNeuve]

NextPipeline ==
    \/ Start("s1")
    \/ \E ys \in SUBSET ANNEES, ms \in SUBSET NOMS, mo \in ChoixMois :
          /\ session["s1"].declencheur = "start"
          /\ FilterChange("s1", ys, ms, mo)

SpecPipeline == InitPipeline /\ [][NextPipeline]_vars


\* --------------------------------------------------------------- claims
\* What the page of session s1 shows once a pass has run.
v == session["s1"]
Rendu == v.pc = "idle"

\* Position of a month in the canonical order Janvier..Décembre.
RangMois(m) == CHOOSE k \in 1..Len(mois) : mois[k] = m

\* The rows of the filtered set that lie strictly before today's month and
\* have amount 0.
Impayes ==
    {i \in 1..Len(v.df_filtre) :
        /\ v.df_filtre[i].MONTANT = 0
        /\ v.df_filtre[i].MOIS \in MoisCanoniques
        /\ 12 * v.df_filtre[i].ANNEE + RangMois(v.df_filtre[i].MOIS)
              < 12 * today[1] + today[2]}

\* The arrears tally of member n, 0 for a member the tally omits.
Tally(n) == IF n \in DOMAIN v.retards_df THEN v.retards_df[n] ELSE 0

\* C1: the filtered set is exactly the subsequence of the loaded rows whose
\* year, member and month are all selected, in the order of the loaded table.
C1_FilterExact ==
    Rendu =>
        v.df_filtre =
            SelectSeq(v.df, LAMBDA r : /\ r.ANNEE \in v.annee_select
                                       /\ r.NOM \in v.membre_select
                                       /\ r.MOIS \in v.mois_select)

\* C1 witness: a filter change dropped the first of two loaded rows and kept
\* the second.
C1_Witness ==
    /\ Rendu
    /\ v.declencheur = "filter"
    /\ Len(v.df) = 2
    /\ v.df[1] # v.df[2]
    /\ v.df_filtre = <<v.df[2]>>

\* C2: a row is flagged iff its amount is 0 and its period is strictly before
\* today's; the tally holds exactly the members with a flagged row, each with
\* the number of its flagged rows.
C2_ArrearsTally ==
    Rendu =>
        /\ v.issue = "rendu"
        /\ DOMAIN v.retards_df = {v.df_filtre[i].NOM : i \in Impayes}
        /\ \A n \in DOMAIN v.retards_df :
              v.retards_df[n] =
                  Cardinality({i \in Impayes : v.df_filtre[i].NOM = n})

\* C2 witness: one unpaid row of a past month is tallied while an unpaid row
\* of the current month is in the filtered set.
C2_Witness ==
    /\ Rendu
    /\ v.retards_df # <<>>
    /\ \E i \in 1..Len(v.df_filtre) :
          /\ v.df_filtre[i].MONTANT = 0
          /\ v.df_filtre[i].ANNEE = today[1]
          /\ v.df_filtre[i].MOIS = mois[today[2]]

\* C3: the tally of a member is the number of distinct (year, month) pairs of
\* that member that are before the current month with amount 0.
C3_DistinctPeriods ==
    Rendu =>
        \A n \in NOMS :
            Tally(n) =
                Cardinality({<<v.df_filtre[i].ANNEE, v.df_filtre[i].MOIS>> :
                                i \in {j \in Impayes : v.df_filtre[j].NOM = n}})

\* C4: the by-month totals are 12 entries in canonical order, the sum of the
\* month's rows for a month present and the number 0 for a month absent.
C4_ByMonthTotals ==
    Rendu =>
        /\ Len(v.total_par_mois) = 12
        /\ \A i \in 1..12 :
              /\ v.total_par_mois[i].MOIS = mois[i]
              /\ v.total_par_mois[i].MONTANT =
                    Nombre(Somme(Colonne(
                        SelectSeq(v.df_filtre, LAMBDA r : r.MOIS = mois[i]),
                        "MONTANT")))

\* C5: the pivot has one row per member present and one column per canonical
\* month, each cell the sum of the pair's amounts, 0 without rows.
C5_PivotAllMonths ==
    Rendu =>
        /\ {v.pivot.index[i] : i \in 1..Len(v.pivot.index)}
              = Unique(v.df_filtre, "NOM")
        /\ Len(v.pivot.index) = Cardinality(Unique(v.df_filtre, "NOM"))
        /\ {v.pivot.columns[i] : i \in 1..Len(v.pivot.columns)} = MoisCanoniques
        /\ \A n \in Unique(v.df_filtre, "NOM"), m \in MoisCanoniques :
              /\ <<n, m>> \in DOMAIN v.pivot.cell
              /\ v.pivot.cell[n, m] =
                    Somme(Colonne(
                        SelectSeq(v.df_filtre, LAMBDA r : r.NOM = n /\ r.MOIS = m),
                        "MONTANT"))

\* C6: a pass over a loaded table that holds a row whose month is not a
\* canonical month never renders the page as if the row did not exist: it
\* ends in an error the user sees.
C6_UnknownMonthReported ==
    (Rendu /\ \E i \in 1..Len(v.df) : v.df[i].MOIS \notin MoisCanoniques)
        => v.issue # "rendu"

\* C7 as stated: paid_count + unpaid_count is the number of filtered rows,
\* whatever amounts the table holds.
C7_CountsPartition ==
    Rendu => v.nb_paiements + v.nb_non_paiements = Len(v.df_filtre)

\* C7 amended: paid_count + unpaid_count is the number of filtered rows whose
\* amount is not negative.
C7_CountsNonNegative ==
    Rendu =>
        v.nb_paiements + v.nb_non_paiements =
            Len(SelectSeq(v.df_filtre, LAMBDA r : r.MONTANT >= 0))

\* C7 witness: the filtered set holds a negative amount beside a paid row.
C7_Witness ==
    /\ Rendu
    /\ Len(v.df_filtre) = 2
    /\ v.nb_paiements = 1
    /\ \E i \in 1..2 : v.df_filtre[i].MONTANT < 0

\* C8: the by-year totals and the by-member totals both add up to the overall
\* total.
C8_TotalsAgree ==
    Rendu =>
        /\ Somme(Colonne(v.total_par_annee, "MONTANT")) = v.total_cotisations
        /\ Somme(Colonne(v.total_par_membre, "MONTANT")) = v.total_cotisations

\* C8 witness: the filtered set holds the same paid (member, year, month)
\* twice.
C8_Witness ==
    /\ Rendu
    /\ Len(v.df_filtre) = 2
    /\ v.df_filtre[1] = v.df_filtre[2]
    /\ v.total_cotisations = 10000

C10_SessionIsolation ==
    [][\A b \in Sessions :
          (session[b].pc = "idle" /\ session'[b].pc = "idle"
              /\ session'[b].declencheur = "filter"
              /\ session'[b] # session[b])
          => session'[b].df = session[b].df]_vars

=============================================================================
